---- MODULE Spec2Model ----
(***************************************************************************)
(* A model of script.py: one run of main(PRODUCTS).                        *)
(*                                                                         *)
(*   main -> get_page_data -> search_for_products -> alert_me              *)
(*            (set_up_connection, compose_message, send, errors.log)       *)
(*                                                                         *)
(* Texts are sequences of one-character strings.  The two Hebrew words of  *)
(* the freshness test are kept as single symbols HOURS and DAYS; digits    *)
(* and blanks are characters, so "1 DAYS" is a substring of "11 DAYS"      *)
(* exactly as in Python.  An optional value (None / a value) is the empty  *)
(* tuple or a one-element tuple.                                           *)
(***************************************************************************)
EXTENDS Integers, Sequences, FiniteSets, TLC

VARIABLES
    pc,              \* position of the run inside main
    products,        \* PRODUCTS, the configured keyword list
    tokenPickle,     \* the file token.pickle on disk
    resp,            \* the HTTP response of requests.get
    html,            \* main's local html
    products_found,  \* main's local products_found (None until assigned)
    probed,          \* indices of the anchors whose date traversal was run
    service,         \* TRUE once build(...) returned a Gmail service
    io,              \* the outside effects of alert_me, in order
    outbox,          \* messages accepted by the mail service
    errorsLog,       \* the entries of errors.log
    exc              \* the exception that left main uncaught ("" for none)

vars == <<pc, products, tokenPickle, resp, html, products_found, probed,
          service, io, outbox, errorsLog, exc>>

\* ------------------------------------------------------------------ bounds
MaxAnchors == 2
MaxKeywords == 2

\* --------------------------------------------------------- optional values
NoneVal == <<>>
Some(x) == <<x>>

\* ------------------------------------------------------------------- text
HOURS == "HOURS"
DAYS == "DAYS"
AGO == "AGO"

\* str.lower() on one character
LowerChar(c) ==
    CASE c = "T" -> "t"
      [] c = "V" -> "v"
      [] OTHER -> c

\* str.upper() on one character
UpperChar(c) ==
    CASE c = "t" -> "T"
      [] c = "v" -> "V"
      [] OTHER -> c

\* str.lower()
Lower(s) == [i \in 1..Len(s) |-> LowerChar(s[i])]

\* str.title() on a word of letters: first letter upper, the rest lower
Title(s) == [i \in 1..Len(s) |-> IF i = 1 THEN UpperChar(s[i]) ELSE LowerChar(s[i])]

\* Python's  p in t  on strings
Contains(t, p) ==
    \E k \in 0..(Len(t) - Len(p)) : SubSeq(t, k + 1, k + Len(p)) = p

DigitChars == <<"0", "1", "2", "3", "4", "5", "6", "7", "8", "9">>

RECURSIVE Digits(_)
\* the decimal numeral of n
Digits(n) ==
    IF n < 10 THEN <<DigitChars[n + 1]>>
    ELSE Digits(n \div 10) \o <<DigitChars[(n % 10) + 1]>>

\* the text of an indicator that states n units: "AGO n unit"
DateText(n, unit) == <<AGO, " ">> \o Digits(n) \o <<" ", unit>>

\* ---------------------------------------------------------------- the page
(* An anchor of the parsed page, as far as search_for_products looks at it: *)
(*   string  a.string: None, or the anchor's direct text                   *)
(*   href    the href attribute: missing, or its value (possibly "")       *)
(*   depth   the number of elements of a.parents                           *)
(*   c1      the number of children of the 5th parent                      *)
(*   c2      the number of children of that element's 4th child            *)
(*   c3      the number of children of the latter's 4th child              *)
(*   date    the text of the 2nd child reached that way                    *)

\* islice(a.parents, 4, None): the parents skipped before the one taken
AncestorSkip == 4
\* the index [3] applied twice to a list of children
ChildIndex == 3
\* the index [1] of the node that holds the date text
DateChildIndex == 1

\* a.get("href", "")
GetHref(a) == IF a.href = NoneVal THEN "" ELSE a.href[1]

\* the truth value of a Python string
Truthy(s) == s # ""

\* lines 43-48 with a missing node read as an empty text
FreshnessText_lenient(a) ==
    IF a.depth <= AncestorSkip \/ a.c1 <= ChildIndex \/ a.c2 <= ChildIndex
       \/ a.c3 <= DateChildIndex
    THEN [exc |-> "", text |-> <<>>]
    ELSE [exc |-> "", text |-> a.date]

\* lines 43-48: the text of the date node, or the error the traversal raises
FreshnessText(a) ==
    IF a.depth <= AncestorSkip THEN [exc |-> "StopIteration", text |-> <<>>]
    ELSE IF a.c1 <= ChildIndex THEN [exc |-> "IndexError", text |-> <<>>]
    ELSE IF a.c2 <= ChildIndex THEN [exc |-> "IndexError", text |-> <<>>]
    ELSE IF a.c3 <= DateChildIndex THEN [exc |-> "IndexError", text |-> <<>>]
    ELSE [exc |-> "", text |-> a.date]

\* line 49: date_is_today
DateIsToday(date_text) ==
    Contains(date_text, <<HOURS>>) \/ Contains(date_text, <<"1", " ", DAYS>>)

\* line 42 with the anchor text compared as written
TextContains_nolower(p, a) == Contains(a.string[1], p)

\* line 42, second conjunct: p in a.string.lower()
TextContains(p, a) == Contains(Lower(a.string[1]), p)

\* line 42 without its href test
HrefOk_any(a) == TRUE

\* line 42, third conjunct: a.get("href", "")
HrefOk(a) == Truthy(GetHref(a))

\* line 42: the condition under which the date traversal is run
Candidate(p, a) == a.string # NoneVal /\ TextContains(p, a) /\ HrefOk(a)

\* line 37: products = [p.lower() for p in products]
LowerAll(ps) == [i \in 1..Len(ps) |-> Lower(ps[i])]

\* ------------------------------------------------------------ the MatchSet
\* A dict is the sequence of its items in insertion order.
HasKey(d, k) == \E i \in 1..Len(d) : d[i].key = k

\* d.get(k, [])
Links(d, k) == IF HasKey(d, k) THEN d[CHOOSE i \in 1..Len(d) : d[i].key = k].links ELSE <<>>

\* line 51: matches.setdefault(p, []).append(href)
SetDefaultAppend(d, k, href) ==
    IF HasKey(d, k)
    THEN [i \in 1..Len(d) |->
            IF d[i].key = k THEN [d[i] EXCEPT !.links = Append(@, href)] ELSE d[i]]
    ELSE Append(d, [key |-> k, links |-> <<href>>])

\* line 56 without lines 53-54: the dict is returned as it is
ReturnValue_asis(matches) == Some(matches)

\* lines 53-56: an empty dict is returned as None
ReturnValue(matches) == IF Len(matches) = 0 THEN NoneVal ELSE Some(matches)

RECURSIVE SearchLoop(_, _, _, _, _)
\* lines 40-51: the loops over the lowered keywords ps (index i) and the
\* anchors (index j); st is [matches, probed, exc] so far.  An error of the
\* traversal ends the loops at once.
SearchLoop(ps, anchors, i, j, st) ==
    IF i > Len(ps) THEN st
    ELSE IF j > Len(anchors) THEN SearchLoop(ps, anchors, i + 1, 1, st)
    ELSE IF ~Candidate(ps[i], anchors[j]) THEN SearchLoop(ps, anchors, i, j + 1, st)
    ELSE LET d == FreshnessText(anchors[j])
             seen == [st EXCEPT !.probed = @ \cup {j}]
         IN  IF d.exc # "" THEN [seen EXCEPT !.exc = d.exc]
             ELSE IF DateIsToday(d.text)
             THEN SearchLoop(ps, anchors, i, j + 1,
                      [seen EXCEPT !.matches =
                          SetDefaultAppend(@, ps[i], GetHref(anchors[j]))])
             ELSE SearchLoop(ps, anchors, i, j + 1, seen)

\* search_for_products(html, products): [exc, value, probed]
search_for_products(page, ps) ==
    LET st == SearchLoop(LowerAll(ps), page, 1, 1,
                         [matches |-> <<>>, probed |-> {}, exc |-> ""])
    IN  [exc |-> st.exc,
         value |-> IF st.exc = "" THEN ReturnValue(st.matches) ELSE NoneVal,
         probed |-> st.probed]

\* ------------------------------------------------------- the mail service
(* token.pickle is absent (None) or holds a pickle that is corrupt or holds *)
(* credentials with the fields set_up_connection reads.                     *)
TokenFile(corrupt, valid, expired, refresh_token) ==
    [corrupt |-> corrupt, valid |-> valid, expired |-> expired,
     refresh_token |-> refresh_token]

\* the credentials a successful refresh or consent flow leaves in creds
FreshCreds == TokenFile(FALSE, TRUE, FALSE, TRUE)

\* what an interrupted pickle.dump leaves in the file opened with "wb"
TruncatedFile == TokenFile(TRUE, FALSE, FALSE, FALSE)

SetUpResult(events, token, e, built) ==
    [io |-> events, token |-> token, exc |-> e, service |-> built]

\* lines 87-89: creds = pickle.load(token) if the file exists
LoadStage(token) ==
    IF token = NoneVal THEN [io |-> <<>>, exc |-> "", creds |-> NoneVal]
    ELSE IF token[1].corrupt
    THEN [io |-> <<"load">>, exc |-> "UnpicklingError", creds |-> NoneVal]
    ELSE [io |-> <<"load">>, exc |-> "", creds |-> token]

\* line 91: not creds or not creds.valid
NeedsLogin(creds) == creds = NoneVal \/ ~creds[1].valid

\* line 92: creds and creds.expired and creds.refresh_token
CanRefresh(creds) == creds # NoneVal /\ creds[1].expired /\ creds[1].refresh_token

\* line 101: service = build("gmail", "v1", credentials=creds)
BuildStage(events, token, fail) ==
    IF fail = "build"
    THEN SetUpResult(Append(events, "build"), token, "HttpError", FALSE)
    ELSE SetUpResult(Append(events, "build"), token, "", TRUE)

\* lines 98-99 left out: the credentials are used without being saved
SaveStage_skip(events, creds, token, fail) == BuildStage(events, token, fail)

\* lines 98-99: pickle.dump(creds, token), then line 101
SaveStage(events, creds, token, fail) ==
    IF fail = "dump"
    THEN SetUpResult(Append(events, "dump"), Some(TruncatedFile), "OSError", FALSE)
    ELSE BuildStage(Append(events, "dump"), Some(creds), fail)

\* set_up_connection(), the step named by fail raising if it is reached
set_up_connection(token, fail) ==
    LET l == LoadStage(token)
    IN  IF l.exc # "" THEN SetUpResult(l.io, token, l.exc, FALSE)
        ELSE IF ~NeedsLogin(l.creds) THEN BuildStage(l.io, token, fail)
        ELSE LET how == IF CanRefresh(l.creds) THEN "refresh" ELSE "consent"
                 events == Append(l.io, how)
             IN  IF fail = how
                 THEN SetUpResult(events, token,
                          IF how = "refresh" THEN "RefreshError" ELSE "FileNotFoundError",
                          FALSE)
                 ELSE SaveStage(events, FreshCreds, token, fail)

\* compose_message(products): the subject names the keys title-cased, the
\* body lists every key with its links; the base64 wrapping is left opaque
compose_message(matches) ==
    [to |-> "TARGET_MAIL_ADDR", from |-> "FROM_MAIL_ADDR",
     subject |-> [i \in 1..Len(matches) |-> Title(matches[i].key)],
     body |-> matches]

\* line 22 without the test of line 21
ShouldAlert_always(found) == TRUE

\* line 21: products_found is not None
ShouldAlert(found) == found # NoneVal

\* ------------------------------------------------------------------ inputs
SeqsUpTo(S, n) == UNION {[1..k -> S] : k \in 0..n}

NonEmptySeqsUpTo(S, n) == UNION {[1..k -> S] : k \in 1..n}

Anchor(string, href, depth, c1, c2, c3, date) ==
    [string |-> string, href |-> href, depth |-> depth, c1 |-> c1, c2 |-> c2,
     c3 |-> c3, date |-> date]

\* an anchor laid out as the traversal expects
GoodAnchor(string, href, date) == Anchor(string, href, 5, 4, 4, 2, date)

HrefNames == <<"u1", "u2", "u3", "u4">>

\* the matcher alone: keywords and texts in both cases, every anchor laid
\* out well with its own href, fresh or stale
Keywords == {<<"t">>, <<"T">>, <<"v">>, <<"t", "v">>, <<"T", "V">>, <<"v", "t">>}

KeywordLists == NonEmptySeqsUpTo(Keywords, MaxKeywords)

TextKinds ==
    [string : {NoneVal, Some(<<"T", "v">>), Some(<<"V", "t">>)},
     date : {DateText(5, HOURS), DateText(2, DAYS)}]

TextPages ==
    UNION {{[j \in 1..k |-> GoodAnchor(f[j].string, Some(HrefNames[j]), f[j].date)] :
               f \in [1..k -> TextKinds]} : k \in 0..MaxAnchors}

\* the whole run: one text that the keywords match, every kind of href,
\* indicator and layout
MainProducts == {<<<<"T">>>>, <<<<"t", "v">>>>, <<<<"T">>, <<"t", "v">>>>}

MainAnchors ==
    {GoodAnchor(Some(<<"t", "v">>), Some("h5"), DateText(5, HOURS)),
     GoodAnchor(Some(<<"t", "v">>), Some("d1"), DateText(1, DAYS)),
     GoodAnchor(Some(<<"t", "v">>), Some("d2"), DateText(2, DAYS)),
     GoodAnchor(Some(<<"t", "v">>), Some("d11"), DateText(11, DAYS)),
     GoodAnchor(Some(<<"t", "v">>), Some(""), DateText(5, HOURS)),
     GoodAnchor(Some(<<"t", "v">>), NoneVal, DateText(5, HOURS)),
     Anchor(Some(<<"t", "v">>), Some("p4"), 4, 4, 4, 2, DateText(5, HOURS)),
     Anchor(Some(<<"t", "v">>), Some("c13"), 5, 3, 4, 2, DateText(5, HOURS)),
     Anchor(Some(<<"t", "v">>), Some("c23"), 5, 4, 3, 2, DateText(5, HOURS)),
     Anchor(Some(<<"t", "v">>), Some("c31"), 5, 4, 4, 1, DateText(5, HOURS)),
     Anchor(NoneVal, Some("n"), 4, 0, 0, 0, <<>>),
     Anchor(Some(<<"v", "v">>), Some("vv"), 1, 0, 0, 0, <<>>)}

MainPages == SeqsUpTo(MainAnchors, MaxAnchors)

Responses ==
    [status : {200}, text : MainPages]
    \cup [status : {404, 503}, text : {p \in MainPages : Len(p) <= 1}]

TokenFiles ==
    {NoneVal,
     Some(TokenFile(TRUE, FALSE, FALSE, FALSE)),
     Some(TokenFile(FALSE, TRUE, FALSE, TRUE)),
     Some(TokenFile(FALSE, FALSE, TRUE, TRUE)),
     Some(TokenFile(FALSE, FALSE, TRUE, FALSE))}

Failures == {"none", "refresh", "consent", "dump", "build"}

NoResponse == [status |-> 0, text |-> <<>>]

\* ------------------------------------------------------------- the run
Init ==
    /\ pc = "main"
    /\ products \in MainProducts
    /\ tokenPickle \in TokenFiles
    /\ resp = NoResponse
    /\ html = <<>>
    /\ products_found = NoneVal
    /\ probed = {}
    /\ service = FALSE
    /\ io = <<>>
    /\ outbox = <<>>
    /\ errorsLog = <<>>
    /\ exc = ""

\* lines 19, 27-28: requests.get returns a response, whatever its status
GetPageData ==
    /\ pc = "main"
    /\ \E r \in Responses :
        /\ resp' = r
        /\ html' = r.text
    /\ pc' = "fetched"
    /\ UNCHANGED <<products, tokenPickle, products_found, probed, service, io,
                   outbox, errorsLog, exc>>

\* line 27: requests.get raises (no connection, DNS failure, timeout)
GetPageDataRaises ==
    /\ pc = "main"
    /\ pc' = "crashed"
    /\ exc' = "ConnectionError"
    /\ UNCHANGED <<products, tokenPickle, resp, html, products_found, probed,
                   service, io, outbox, errorsLog>>

\* line 20: products_found = search_for_products(html, products)
SearchForProducts ==
    /\ pc = "fetched"
    /\ LET r == search_for_products(html, products)
       IN  /\ probed' = r.probed
           /\ exc' = r.exc
           /\ products_found' = r.value
           /\ pc' = IF r.exc = "" THEN "searched" ELSE "crashed"
    /\ UNCHANGED <<products, tokenPickle, resp, html, service, io, outbox,
                   errorsLog>>

\* lines 21-22: alert_me is called only with a MatchSet
MainBranch ==
    /\ pc = "searched"
    /\ pc' = IF ShouldAlert(products_found) THEN "alert" ELSE "exit"
    /\ UNCHANGED <<products, tokenPickle, resp, html, products_found, probed,
                   service, io, outbox, errorsLog, exc>>

\* line 61: service = set_up_connection(), outside the try of alert_me
SetUpConnection ==
    /\ pc = "alert"
    /\ \E fail \in Failures :
        LET r == set_up_connection(tokenPickle, fail)
        IN  /\ io' = io \o r.io
            /\ tokenPickle' = r.token
            /\ service' = r.service
            /\ exc' = r.exc
            /\ pc' = IF r.exc = "" THEN "connected" ELSE "crashed"
    /\ UNCHANGED <<products, resp, html, products_found, probed, outbox,
                   errorsLog>>

\* lines 63-66: the message is composed and sent
SendMessage ==
    /\ pc = "connected"
    /\ products_found # NoneVal
    /\ io' = Append(io, "send")
    /\ outbox' = Append(outbox, compose_message(products_found[1]))
    /\ pc' = "exit"
    /\ UNCHANGED <<products, tokenPickle, resp, html, products_found, probed,
                   service, errorsLog, exc>>

\* lines 63-77: execute() raises; the error is written to errors.log
SendMessageFails ==
    /\ pc = "connected"
    /\ products_found # NoneVal
    /\ io' = io \o <<"send", "log">>
    /\ errorsLog' = Append(errorsLog, [stamp |-> "now", error |-> "HttpError"])
    /\ pc' = "exit"
    /\ UNCHANGED <<products, tokenPickle, resp, html, products_found, probed,
                   service, outbox, exc>>

Next ==
    \/ GetPageData
    \/ GetPageDataRaises
    \/ SearchForProducts
    \/ MainBranch
    \/ SetUpConnection
    \/ SendMessage
    \/ SendMessageFails

Spec == Init /\ [][Next]_vars

\* ------------------------------------------------- the matcher on its own
InitMatch ==
    /\ pc = "fetched"
    /\ products \in KeywordLists
    /\ html \in TextPages
    /\ resp = [status |-> 200, text |-> html]
    /\ tokenPickle = NoneVal
    /\ products_found = NoneVal
    /\ probed = {}
    /\ service = FALSE
    /\ io = <<>>
    /\ outbox = <<>>
    /\ errorsLog = <<>>
    /\ exc = ""

NextMatch == SearchForProducts

SpecMatch == InitMatch /\ [][NextMatch]_vars

\* ------------------------------------------------------------ properties
\* search_for_products returned (to main)
Returned == pc \in {"searched", "alert", "connected", "exit"}

\* search_for_products was run, whether it returned or raised
Searched == Returned \/ (pc = "crashed" /\ resp # NoResponse)

StructuralErrors == {"StopIteration", "IndexError"}

MailErrors == {"UnpicklingError", "RefreshError", "FileNotFoundError", "OSError", "HttpError"}

\* the MatchSet returned (only where products_found is not None)
Found == products_found[1]

InSeq(x, seq) == \E n \in 1..Len(seq) : seq[n] = x

\* the links returned under key, none when there is no MatchSet
FoundLinks(key) == IF products_found = NoneVal THEN <<>> ELSE Links(Found, key)

\* anchor j has direct text that contains keyword i, cases ignored
TextMatches(i, j) ==
    /\ html[j].string # NoneVal
    /\ Contains(Lower(html[j].string[1]), Lower(products[i]))

\* anchor j is laid out as the traversal expects: a 5th ancestor with a 4th
\* child that has a 4th child that has a 2nd child
StructureMatches(j) ==
    /\ html[j].depth >= 5
    /\ html[j].c1 >= 4
    /\ html[j].c2 >= 4
    /\ html[j].c3 >= 2

\* anchor j passes the text and href checks for some keyword
Eligible(j) == \E i \in 1..Len(products) : TextMatches(i, j) /\ GetHref(html[j]) # ""

\* keyword i and anchor j satisfy the text, href and freshness conditions
MatchingPair(i, j) ==
    /\ TextMatches(i, j)
    /\ GetHref(html[j]) # ""
    /\ StructureMatches(j)
    /\ DateIsToday(html[j].date)

\* C1: for every keyword k and every anchor with direct text t, a non-empty
\* href and a fresh indicator, the href is listed under lowercase(k) if and
\* only if lowercase(k) is a substring of lowercase(t); every key of the
\* result is a lowercased keyword.
C1_CaseInsensitiveMatch ==
    pc = "searched" =>
        /\ \A i \in 1..Len(products), j \in 1..Len(html) :
              (/\ html[j].string # NoneVal
               /\ GetHref(html[j]) # ""
               /\ DateIsToday(html[j].date))
              => (InSeq(GetHref(html[j]), FoundLinks(Lower(products[i])))
                  <=> Contains(Lower(html[j].string[1]), Lower(products[i])))
        /\ products_found # NoneVal =>
              \A n \in 1..Len(Found) :
                  \E i \in 1..Len(products) : Found[n].key = Lower(products[i])

\* C1 witness: a keyword with a capital matched a text with a capital
C1_Witness ==
    /\ pc = "searched"
    /\ \E i \in 1..Len(products), j \in 1..Len(html) :
          /\ products[i] # Lower(products[i])
          /\ html[j].string # NoneVal
          /\ html[j].string[1] # Lower(html[j].string[1])
          /\ ~Contains(html[j].string[1], products[i])
          /\ InSeq(GetHref(html[j]), FoundLinks(Lower(products[i])))

\* C2: a link is returned only for an anchor whose indicator contains the
\* hours marker or states a day count of exactly 1 (so never for 2, 3, 11
\* or 21 days).
C2_OnlyHoursOrOneDay ==
    (Returned /\ products_found # NoneVal) =>
        \A n \in 1..Len(Found) : \A m \in 1..Len(Found[n].links) :
            \E j \in 1..Len(html) :
                /\ GetHref(html[j]) = Found[n].links[m]
                /\ \/ Contains(html[j].date, <<HOURS>>)
                   \/ html[j].date = DateText(1, DAYS)

C4_NoEmptyHref ==
    (Returned /\ products_found # NoneVal) =>
        \A n \in 1..Len(Found) : ~InSeq("", Found[n].links)

\* C4 witness: a MatchSet was returned for a page with a fresh anchor whose
\* text matches and whose href is missing or empty
C4_Witness ==
    /\ Returned
    /\ products_found # NoneVal
    /\ \E i \in 1..Len(products), j \in 1..Len(html) :
          /\ TextMatches(i, j)
          /\ GetHref(html[j]) = ""
          /\ StructureMatches(j)
          /\ DateIsToday(html[j].date)

Count(e, seq) == Cardinality({n \in 1..Len(seq) : seq[n] = e})

\* C5: a send is attempted at most once and only with a MatchSet; with no
\* matches the run ends without authenticating, composing, sending or
\* logging; a failed send is not retried.
C5_SendAtMostOnceOnlyOnMatch ==
    /\ Count("send", io) <= 1
    /\ Len(outbox) + Len(errorsLog) <= 1
    /\ (io # <<>> \/ outbox # <<>> \/ errorsLog # <<>> \/ service)
          => (Searched /\ products_found # NoneVal)
    /\ (Returned /\ products_found = NoneVal)
          => (pc \in {"searched", "exit"} /\ io = <<>> /\ exc = "")
    /\ InSeq("log", io) => (pc = "exit" /\ io[Len(io)] = "log")

\* C5 witness: a run ended after a search that found nothing
C5_Witness ==
    /\ pc = "exit"
    /\ products_found = NoneVal
    /\ html # <<>>

\* C6: every authentication failure and every send failure of alert_me is
\* caught: one entry is written to errors.log and the run exits normally.
C6_MailFailuresCaught ==
    /\ ~(pc = "crashed" /\ exc \in MailErrors)
    /\ (pc = "exit" /\ products_found # NoneVal /\ outbox = <<>>)
          => Len(errorsLog) = 1

\* C7: a response with a non-2xx status makes get_page_data fail: the run
\* aborts and the body is never passed to search_for_products.
C7_Non2xxAborts ==
    (resp # NoResponse /\ ~(resp.status \in 200..299)) =>
        (pc = "crashed" /\ html = <<>> /\ probed = {} /\ io = <<>>)

\* the position of the first e in seq, 0 when there is none
Pos(e, seq) == IF InSeq(e, seq) THEN CHOOSE n \in 1..Len(seq) :
                   seq[n] = e /\ \A m \in 1..(n - 1) : seq[m] # e ELSE 0

\* C8 as stated: whenever the service is built, the credentials were
\* written to token.pickle before, also when they were loaded valid.
C8_AlwaysSavedBeforeBuild ==
    InSeq("build", io) => (InSeq("dump", io) /\ Pos("dump", io) < Pos("build", io))

\* C8 amended: credentials that were refreshed or obtained by the consent
\* flow are written to token.pickle before the service is built; cached
\* credentials that were loaded valid are used without being written.
C8_SavedBeforeBuildWhenRenewed ==
    InSeq("build", io) =>
        IF InSeq("refresh", io) \/ InSeq("consent", io)
        THEN /\ InSeq("dump", io)
             /\ Pos("dump", io) < Pos("build", io)
             /\ tokenPickle = Some(FreshCreds)
        ELSE /\ io[1] = "load"
             /\ ~InSeq("dump", io)
             /\ tokenPickle[1].valid

\* C8 witness: expired credentials were refreshed, saved and used
C8_Witness ==
    /\ pc = "connected"
    /\ service
    /\ InSeq("refresh", io)
    /\ InSeq("dump", io)

\* the hrefs of the anchors that match key, in document order, once each
ExpectedLinks(key) ==
    LET Matches(j) ==
            /\ html[j].string # NoneVal
            /\ Contains(Lower(html[j].string[1]), key)
            /\ GetHref(html[j]) # ""
            /\ StructureMatches(j)
            /\ DateIsToday(html[j].date)
        hits == SelectSeq([j \in 1..Len(html) |-> j], Matches)
    IN  [n \in 1..Len(hits) |-> GetHref(html[hits[n]])]

\* C9: each key's link list is exactly the hrefs of the anchors matching it,
\* in document order and once each, also when two keywords are equal after
\* lowercasing; the keys are in the order of their first keyword.
C9_LinksOncePerAnchor ==
    (pc = "searched" /\ products_found # NoneVal) =>
        /\ \A n \in 1..Len(Found) : Found[n].links = ExpectedLinks(Found[n].key)
        /\ \A n, m \in 1..Len(Found) :
              n < m => \E i \in 1..Len(products) :
                          /\ Lower(products[i]) = Found[n].key
                          /\ \A k \in 1..i : Lower(products[k]) # Found[m].key

\* C10: the traversal is run only for anchors that pass the text and href
\* checks; if such an anchor is not laid out as expected the search raises a
\* structural error, nothing is returned, no mail is sent and nothing is
\* logged; a page without such an anchor raises no structural error.
C10_StructuralErrorAborts ==
    Searched =>
        /\ \A j \in probed : Eligible(j)
        /\ (\E j \in 1..Len(html) : Eligible(j) /\ ~StructureMatches(j))
              => /\ pc = "crashed"
                 /\ exc \in StructuralErrors
                 /\ products_found = NoneVal
                 /\ io = <<>> /\ outbox = <<>> /\ errorsLog = <<>>
        /\ (~\E j \in 1..Len(html) : Eligible(j))
              => (probed = {} /\ ~(exc \in StructuralErrors))

\* C10 witness: the search raised after an earlier anchor had matched
C10_Witness ==
    /\ pc = "crashed"
    /\ exc = "IndexError"
    /\ \E j \in probed : StructureMatches(j) /\ DateIsToday(html[j].date)

====
